---- MODULE Spec2Model ----
(***************************************************************************)
(* Model of the BlueALSA <-> JACK autobridge supervisor                    *)
(* (src/src/jack-bluealsa-autobridge.c).                                   *)
(*                                                                         *)
(* Strings are sequences of tokens.  A token is either a single character  *)
(* that the code inspects ("/", "_", ":", "=", "#", " ", digits) or a run  *)
(* of characters the code never looks into ("dev_", "bt_in_", a key name). *)
(* strstr, strchr, strrchr, trim, atoi, g_strjoin and g_strsplit_set are   *)
(* computed on these sequences the way the C code computes them.           *)
(***************************************************************************)
EXTENDS Integers, Sequences, FiniteSets, TLC

(***************************************************************************)
(* Bounds of the model.                                                    *)
(***************************************************************************)
MaxPid == 2          \* process ids the OS hands out: 1..MaxPid
MaxEvents == 3       \* D-Bus InterfacesAdded/Removed signals delivered
MaxSignals == 2      \* SIGHUP/SIGINT/SIGTERM deliveries

PIDS == 1..MaxPid

(***************************************************************************)
(* String helpers (libc / glib functions used by the daemon).              *)
(***************************************************************************)
\* the null pointer, a value no string of the model equals
NULL == <<"(null)">>

\* strstr(s, sub) != NULL
strstr(s, sub) ==
    \E i \in 0..(Len(s) - Len(sub)) : SubSeq(s, i + 1, i + Len(sub)) = sub

\* index (1-based) of the first occurrence of sub in s, 0 when there is none
strpos(s, sub) ==
    IF strstr(s, sub)
    THEN CHOOSE i \in 1..(Len(s) - Len(sub) + 1) :
            /\ SubSeq(s, i, i + Len(sub) - 1) = sub
            /\ \A j \in 1..(i - 1) : SubSeq(s, j, j + Len(sub) - 1) # sub
    ELSE 0

\* index of the last occurrence of the character c in s, 0 when there is none
strrchr(s, c) ==
    IF \E i \in 1..Len(s) : s[i] = c
    THEN CHOOSE i \in 1..Len(s) : s[i] = c /\ \A j \in (i + 1)..Len(s) : s[j] # c
    ELSE 0

g_ascii_isspace(c) == c \in {" ", "\t"}

RECURSIVE ltrim(_)
ltrim(s) == IF s # <<>> /\ g_ascii_isspace(Head(s)) THEN ltrim(Tail(s)) ELSE s

RECURSIVE rtrim(_)
rtrim(s) ==
    IF s # <<>> /\ g_ascii_isspace(s[Len(s)]) THEN rtrim(SubSeq(s, 1, Len(s) - 1)) ELSE s

trim(s) == rtrim(ltrim(s))

DigitVal == [c \in {"0", "1", "2", "3", "4", "5", "6", "7", "8", "9"} |->
               CASE c = "0" -> 0 [] c = "1" -> 1 [] c = "2" -> 2 [] c = "3" -> 3
                 [] c = "4" -> 4 [] c = "5" -> 5 [] c = "6" -> 6 [] c = "7" -> 7
                 [] c = "8" -> 8 [] c = "9" -> 9]

RECURSIVE atoi_digits(_, _)
atoi_digits(s, acc) ==
    IF s # <<>> /\ Head(s) \in DOMAIN DigitVal
    THEN atoi_digits(Tail(s), 10 * acc + DigitVal[Head(s)])
    ELSE acc

\* atoi: leading white space, an optional sign, then the leading digits;
\* 0 when no digit follows
atoi(v) ==
    LET s == ltrim(v)
    IN  IF s # <<>> /\ Head(s) = "-" THEN 0 - atoi_digits(Tail(s), 0)
        ELSE IF s # <<>> /\ Head(s) = "+" THEN atoi_digits(Tail(s), 0)
        ELSE atoi_digits(s, 0)

(***************************************************************************)
(* Configuration.                                                          *)
(***************************************************************************)
CONFIG_PATH == <<"/etc/jack-bridge/bluetooth.conf">>
DEFAULT_LOG == <<"/var/log/jack-bluealsa-autobridge.log">>
DEFAULT_PID == <<"/var/run/jack-bluealsa-autobridge.pid">>

load_default_config ==
    [a2dp_rate |-> 48000, a2dp_period |-> 1024, a2dp_nperiods |-> 3,
     a2dp_channels |-> 2, a2dp_drift_comp |-> 1,
     sco_rate |-> 16000, sco_period |-> 256, sco_nperiods |-> 3,
     sco_channels |-> 1,
     spawn_delay |-> 0, child_term_timeout |-> 4,
     log_file |-> DEFAULT_LOG, pid_file |-> DEFAULT_PID,
     runtime_user |-> <<"jack">>, max_bridges |-> 8]

\* one line of the file (the newline already stripped) applied to cfg
parse_line(line, cfg) ==
    LET t == trim(line)
        eq == strpos(t, <<"=">>)
        k == trim(SubSeq(t, 1, eq - 1))
        v == trim(SubSeq(t, eq + 1, Len(t)))
    IN  IF t # <<>> /\ t[1] = "#" THEN cfg
        ELSE IF eq = 0 THEN cfg
        ELSE IF k = <<"A2DP_RATE">> THEN [cfg EXCEPT !.a2dp_rate = atoi(v)]
        ELSE IF k = <<"A2DP_PERIOD">> THEN [cfg EXCEPT !.a2dp_period = atoi(v)]
        ELSE IF k = <<"A2DP_NPERIODS">> THEN [cfg EXCEPT !.a2dp_nperiods = atoi(v)]
        ELSE IF k = <<"A2DP_CHANNELS">> THEN [cfg EXCEPT !.a2dp_channels = atoi(v)]
        ELSE IF k = <<"A2DP_DRIFT_COMP">> THEN [cfg EXCEPT !.a2dp_drift_comp = atoi(v)]
        ELSE IF k = <<"SCO_RATE">> THEN [cfg EXCEPT !.sco_rate = atoi(v)]
        ELSE IF k = <<"SCO_PERIOD">> THEN [cfg EXCEPT !.sco_period = atoi(v)]
        ELSE IF k = <<"SCO_NPERIODS">> THEN [cfg EXCEPT !.sco_nperiods = atoi(v)]
        ELSE IF k = <<"SCO_CHANNELS">> THEN [cfg EXCEPT !.sco_channels = atoi(v)]
        ELSE IF k = <<"SPAWN_DELAY">> THEN [cfg EXCEPT !.spawn_delay = atoi(v)]
        ELSE IF k = <<"CHILD_TERM_TIMEOUT">> THEN [cfg EXCEPT !.child_term_timeout = atoi(v)]
        ELSE IF k = <<"LOG_FILE">> THEN [cfg EXCEPT !.log_file = v]
        ELSE IF k = <<"PID_FILE">> THEN [cfg EXCEPT !.pid_file = v]
        ELSE IF k = <<"RUNTIME_USER">> THEN [cfg EXCEPT !.runtime_user = v]
        ELSE IF k = <<"MAX_BRIDGES">> THEN [cfg EXCEPT !.max_bridges = atoi(v)]
        ELSE cfg

RECURSIVE parse_lines(_, _)
parse_lines(lines, cfg) ==
    IF lines = <<>> THEN cfg
    ELSE parse_lines(Tail(lines), parse_line(Head(lines), cfg))

\* a file that cannot be opened
Absent == [exists |-> FALSE, lines |-> <<>>]

\* variant: a file that cannot be opened reads as an empty file
load_config_from_file_no_open_check(file, cfg) ==
    [ok |-> TRUE, cfg |-> parse_lines(file.lines, cfg)]

\* load_config_from_file(path, cfg): FALSE and cfg untouched when the file
\* cannot be opened, otherwise TRUE and every recognised line overlaid
load_config_from_file(file, cfg) ==
    IF ~file.exists THEN [ok |-> FALSE, cfg |-> cfg]
    ELSE [ok |-> TRUE, cfg |-> parse_lines(file.lines, cfg)]

(***************************************************************************)
(* The contents the configuration file takes in the model.                 *)
(***************************************************************************)
FileTuned == [exists |-> TRUE, lines |->
    << <<"#", " ", "tuned">>,
       <<>>,
       <<"A2DP_PERIOD", "=", "5", "1", "2">>,
       <<" ", "CHILD_TERM_TIMEOUT", " ", "=", " ", "2", " ">>,
       <<"PID_FILE", "=", "/run/ab.pid">>,
       <<"FUTURE_KEY", "=", "1">>,
       <<"no", " ", "equals">> >>]

FileGarbled == [exists |-> TRUE, lines |->
    << <<"A2DP_PERIOD", "=", "a", "b", "c">> >>]

FileCapped == [exists |-> TRUE, lines |->
    << <<"MAX_BRIDGES", "=", "1">> >>]

Files == {Absent, FileTuned, FileGarbled, FileCapped}

(***************************************************************************)
(* D-Bus object paths delivered in the model, and the address derived      *)
(* from a path.                                                            *)
(***************************************************************************)
PathA == <<"/", "org", "/", "dev_", "A", "_", "1", "/", "a2dp">>
PathASco == <<"/", "org", "/", "dev_", "A", "_", "1", "/", "sco">>
PathB == <<"/", "org", "/", "dev_", "B", "_", "1", "/", "a2dp">>
PathCSCO == <<"/", "org", "/", "dev_", "C", "_", "1", "/", "SCO">>
PathRoot == <<"/">>

Paths == {PathA, PathASco, PathB, PathCSCO, PathRoot}

RECURSIVE sanitize(_)
sanitize(s) ==
    IF s = <<>> THEN <<>>
    ELSE <<IF Head(s) = "_" THEN ":" ELSE Head(s)>> \o sanitize(Tail(s))

extract_mac_from_object_path(object_path) ==
    LET p == strpos(object_path, <<"/", "dev_">>)
        last == strrchr(object_path, "/")
        rest == SubSeq(object_path, p + 2, Len(object_path))
        end == strpos(rest, <<"/">>)
    IN  IF p = 0
        THEN IF last = 0 THEN NULL
             ELSE sanitize(SubSeq(object_path, last + 1, Len(object_path)))
        ELSE sanitize(IF end = 0 THEN rest ELSE SubSeq(rest, 1, end - 1))

(***************************************************************************)
(* Command lines.  An argument is a string; argv is a sequence of          *)
(* arguments; a command line is one string.                                *)
(***************************************************************************)
RECURSIVE g_strjoin_argv(_)
\* spawn_bridge: cmdline = argv[0] " " argv[1] " " ...
g_strjoin_argv(argv) ==
    IF argv = <<>> THEN <<>>
    ELSE IF Len(argv) = 1 THEN argv[1]
    ELSE argv[1] \o <<" ">> \o g_strjoin_argv(Tail(argv))

RECURSIVE split_tokens(_, _)
\* g_strsplit_set(cmdline, " \t", -1) followed by the loop that drops the
\* empty pieces; cur is the piece being collected
split_tokens(s, cur) ==
    IF s = <<>> THEN (IF cur = <<>> THEN <<>> ELSE <<cur>>)
    ELSE IF Head(s) \in {" ", "\t"}
         THEN (IF cur = <<>> THEN <<>> ELSE <<cur>>) \o split_tokens(Tail(s), <<>>)
         ELSE split_tokens(Tail(s), cur \o <<Head(s)>>)

\* variant: only the program name survives the split
argv_from_cmdline_program_only(cmdline) == SubSeq(split_tokens(cmdline, <<>>), 1, 1)

argv_from_cmdline(cmdline) == split_tokens(cmdline, <<>>)

itoa(n) == <<ToString(n)>>

Roles == {"sink", "source", "sco"}

job_name(role, mac) ==
    (CASE role = "sink" -> <<"bt_in_">>
       [] role = "source" -> <<"bt_out_">>
       [] role = "sco" -> <<"bt_sco_">>) \o mac

\* variant: every role is given the a2dp device string
device_arg_always_a2dp(role, mac) ==
    <<"bluealsa:DEV=">> \o mac \o <<",PROFILE=a2dp">>

device_arg(role, mac) ==
    <<"bluealsa:DEV=">> \o mac \o
    (IF role = "sco" THEN <<",PROFILE=sco">> ELSE <<",PROFILE=a2dp">>)

probe_stream(role) == IF role = "source" THEN "PLAYBACK" ELSE "CAPTURE"

\* variant: the audio parameters are the built-in defaults
bridge_argv_builtin_parameters(role, mac, cfg) ==
    << <<IF role = "source" THEN "alsa_out" ELSE "alsa_in">>,
       <<"-j">>, job_name(role, mac),
       <<"-d">>, device_arg(role, mac),
       <<"-r">>, itoa(IF role = "sco" THEN load_default_config.sco_rate
                      ELSE load_default_config.a2dp_rate),
       <<"-p">>, itoa(IF role = "sco" THEN load_default_config.sco_period
                      ELSE load_default_config.a2dp_period),
       <<"-n">>, itoa(IF role = "sco" THEN load_default_config.sco_nperiods
                      ELSE load_default_config.a2dp_nperiods),
       <<"-c">>, itoa(IF role = "sco" THEN load_default_config.sco_channels
                      ELSE load_default_config.a2dp_channels) >>

bridge_argv(role, mac, cfg) ==
    << <<IF role = "source" THEN "alsa_out" ELSE "alsa_in">>,
       <<"-j">>, job_name(role, mac),
       <<"-d">>, device_arg(role, mac),
       <<"-r">>, itoa(IF role = "sco" THEN cfg.sco_rate ELSE cfg.a2dp_rate),
       <<"-p">>, itoa(IF role = "sco" THEN cfg.sco_period ELSE cfg.a2dp_period),
       <<"-n">>, itoa(IF role = "sco" THEN cfg.sco_nperiods ELSE cfg.a2dp_nperiods),
       <<"-c">>, itoa(IF role = "sco" THEN cfg.sco_channels ELSE cfg.a2dp_channels) >>

AUTOCONNECT == <<"/usr/lib/jack-bridge/jack-autoconnect">>
AUTOCONNECT_NAME == <<"jack-autoconnect">>

(***************************************************************************)
(* ProcessTable: a GHashTable keyed by pid.                                *)
(***************************************************************************)
g_hash_table_insert(tab, pid, c) ==
    [p \in DOMAIN tab \cup {pid} |-> IF p = pid THEN c ELSE tab[p]]

g_hash_table_remove(tab, pid) ==
    [p \in DOMAIN tab \ {pid} |-> tab[p]]

\* variant: a new record starts with restart count 1
add_child_count_one(tab, pid, name, cmdline) ==
    g_hash_table_insert(tab, pid,
        [name |-> name, cmdline |-> cmdline, restart_count |-> 1])

add_child(tab, pid, name, cmdline) ==
    g_hash_table_insert(tab, pid,
        [name |-> name, cmdline |-> cmdline, restart_count |-> 0])

\* variant: the record stays in the table
remove_child_keeps_record(tab, pid) == tab

remove_child(tab, pid) ==
    IF pid \in DOMAIN tab THEN g_hash_table_remove(tab, pid) ELSE tab

\* variant: the scan compares the whole job name with the address
is_bridge_running_for_mac_whole_name(tab, mac) ==
    /\ mac # NULL
    /\ \E p \in DOMAIN tab : tab[p].name = mac

is_bridge_running_for_mac(tab, mac) ==
    /\ mac # NULL
    /\ \E p \in DOMAIN tab : strstr(tab[p].name, mac)

(***************************************************************************)
(* State.                                                                  *)
(***************************************************************************)
VARIABLES
    pc,          \* position of the main thread
    got_hup,     \* volatile sig_atomic_t got_hup
    got_term,    \* volatile sig_atomic_t got_term
    main_loop,   \* "null", "live" or "freed"
    is_running,  \* GMainLoop.is_running of main_loop
    timer,       \* the 1 s reaper timeout source is installed
    subscribed,  \* the two ObjectManager subscriptions are active
    config,      \* static jb_config_t config
    log_path,    \* static gchar *log_path
    pid_path,    \* static gchar *pid_path
    pid_files,   \* pid files that exist in the file system
    children,    \* ProcessTable: pid -> child_t
    procs,       \* the operating system's view of each pid
    ev,          \* locals of the D-Bus handler or shutdown loop in progress
    term,        \* locals of terminate_child_graceful in progress
    sigs,        \* signals delivered so far
    events,      \* D-Bus signals delivered so far
    lastFile,    \* the config file as the last load or reload found it
    env          \* what the environment of this run may do

vars == <<pc, got_hup, got_term, main_loop, is_running, timer, subscribed,
          config, log_path, pid_path, pid_files, children, procs, ev, term,
          sigs, events, lastFile, env>>

flags == <<got_hup, got_term, is_running>>
cfgvars == <<config, log_path, pid_path, pid_files, lastFile>>

(***************************************************************************)
(* The environments explored: one that varies the bus traffic, one that    *)
(* varies the signals and the configuration file, one with a single event  *)
(* for an upper-case telephony path, one with two devices under a          *)
(* configuration that allows one bridge.                                   *)
(***************************************************************************)
Environments ==
    {[files |-> {Absent}, paths |-> Paths \ {PathCSCO}, events |-> MaxEvents,
      sigs |-> 0],
     [files |-> Files \ {FileCapped}, paths |-> {PathA}, events |-> 1,
      sigs |-> MaxSignals],
     [files |-> {Absent}, paths |-> {PathCSCO}, events |-> 1, sigs |-> 0],
     [files |-> {FileCapped}, paths |-> {PathA, PathB}, events |-> 2, sigs |-> 0]}

\* static storage before init_services has run
ZeroConfig ==
    [a2dp_rate |-> 0, a2dp_period |-> 0, a2dp_nperiods |-> 0,
     a2dp_channels |-> 0, a2dp_drift_comp |-> 0,
     sco_rate |-> 0, sco_period |-> 0, sco_nperiods |-> 0, sco_channels |-> 0,
     spawn_delay |-> 0, child_term_timeout |-> 0,
     log_file |-> NULL, pid_file |-> NULL, runtime_user |-> NULL,
     max_bridges |-> 0]

EmptyTable == [p \in {} |-> 0]

FreeProc == [st |-> "free", kind |-> "none", gen |-> 0]

NoEv == [kind |-> "none"]

NoTerm == [pid |-> 0, waited |-> 0, timeout |-> 0, elapsed |-> 0, intr |-> FALSE]

Init ==
    /\ pc = "start"
    /\ got_hup = 0 /\ got_term = 0
    /\ main_loop = "null" /\ is_running = FALSE
    /\ timer = FALSE /\ subscribed = FALSE
    /\ config = ZeroConfig
    /\ log_path = NULL /\ pid_path = NULL
    /\ pid_files = {}
    /\ children = EmptyTable
    /\ procs = [p \in PIDS |-> FreeProc]
    /\ ev = NoEv /\ term = NoTerm
    /\ sigs = 0 /\ events = 0
    /\ lastFile = Absent
    /\ env \in Environments

(***************************************************************************)
(* Startup: main() up to the creation of the main loop.                    *)
(***************************************************************************)
\* main: hash table, install_signal_handlers, reopen_log
main_start ==
    /\ pc = "start"
    /\ pc' = "init"
    /\ children' = EmptyTable
    /\ log_path' = DEFAULT_LOG
    /\ UNCHANGED <<flags, main_loop, timer, subscribed, config, pid_path,
                   pid_files, lastFile, procs, ev, term, sigs, events, env>>

\* apply_config: the paths the daemon logs to and names as its pid file
apply_log_path(cfg) == IF cfg.log_file # NULL THEN cfg.log_file ELSE DEFAULT_LOG
apply_pid_path(cfg) == IF cfg.pid_file # NULL THEN cfg.pid_file ELSE DEFAULT_PID

\* variant: init_services goes on without a bus connection
init_services_ignores_bus(file, bus_ok) ==
    /\ pc = "init"
    /\ file \in env.files
    /\ LET r == load_config_from_file(file, load_default_config)
       IN  /\ config' = r.cfg
           /\ log_path' = apply_log_path(r.cfg)
           /\ pid_path' = apply_pid_path(r.cfg)
           /\ pid_files' = pid_files \cup {r.cfg.pid_file}
    /\ lastFile' = file
    /\ subscribed' = bus_ok
    /\ pc' = "setup"
    /\ UNCHANGED <<flags, main_loop, timer, children, procs, ev, term, sigs,
                   events, env>>

\* variant: init_services gives up when the config file cannot be opened
init_services_requires_file(file, bus_ok) ==
    /\ pc = "init"
    /\ file \in env.files
    /\ LET r == load_config_from_file(file, load_default_config)
       IN  /\ config' = r.cfg
           /\ log_path' = apply_log_path(r.cfg)
           /\ pid_path' = apply_pid_path(r.cfg)
           /\ pid_files' = IF r.ok THEN pid_files \cup {r.cfg.pid_file} ELSE pid_files
           /\ IF bus_ok /\ r.ok
              THEN subscribed' = TRUE /\ pc' = "setup"
              ELSE subscribed' = FALSE /\ pc' = "failed"
    /\ lastFile' = file
    /\ UNCHANGED <<flags, main_loop, timer, children, procs, ev, term, sigs,
                   events, env>>

init_services(file, bus_ok) ==
    /\ pc = "init"
    /\ file \in env.files
    /\ LET r == load_config_from_file(file, load_default_config)
       IN  /\ config' = r.cfg
           /\ log_path' = apply_log_path(r.cfg)
           /\ pid_path' = apply_pid_path(r.cfg)
           /\ pid_files' = pid_files \cup {r.cfg.pid_file}
    /\ lastFile' = file
    /\ IF bus_ok
       THEN subscribed' = TRUE /\ pc' = "setup"
       ELSE subscribed' = FALSE /\ pc' = "failed"
    /\ UNCHANGED <<flags, main_loop, timer, children, procs, ev, term, sigs,
                   events, env>>

\* main: g_timeout_add_seconds(1, child_reaper_cb), g_main_loop_new
main_setup ==
    /\ pc = "setup"
    /\ timer' = TRUE
    /\ main_loop' = "live"
    /\ pc' = "check_term"
    /\ UNCHANGED <<flags, subscribed, cfgvars, children, procs, ev, term, sigs,
                   events, env>>

(***************************************************************************)
(* Signal handlers.  They run on the main thread at any point after        *)
(* install_signal_handlers; a sleep() in progress returns early.           *)
(***************************************************************************)
Alive == pc \notin {"start", "stopped", "failed", "crashed"}

\* the delivery of a signal: g_main_loop_quit(main_loop) when main_loop is
\* not NULL, and the early return of a sleep in progress
deliver ==
    /\ Alive
    /\ sigs < env.sigs
    /\ sigs' = sigs + 1
    /\ is_running' = IF main_loop = "live" THEN FALSE ELSE is_running
    /\ term' = IF pc = "term_sleep" THEN [term EXCEPT !.intr = TRUE] ELSE term
    \* main_loop already unreferenced: g_main_loop_quit uses freed memory
    /\ \/ pc' = pc
       \/ main_loop = "freed" /\ pc' = "crashed"
    /\ UNCHANGED <<main_loop, timer, subscribed, cfgvars, children, procs, ev,
                   events, env>>

\* variant: the SIGHUP handler reloads the configuration itself
on_hup_reloads_in_handler ==
    /\ Alive
    /\ sigs < env.sigs
    /\ sigs' = sigs + 1
    /\ got_hup' = 1
    /\ is_running' = IF main_loop = "live" THEN FALSE ELSE is_running
    /\ term' = IF pc = "term_sleep" THEN [term EXCEPT !.intr = TRUE] ELSE term
    /\ \E file \in env.files :
          LET r == load_config_from_file(file, load_default_config)
          IN  /\ config' = r.cfg
              /\ log_path' = apply_log_path(r.cfg)
              /\ pid_path' = apply_pid_path(r.cfg)
              /\ lastFile' = file
    /\ UNCHANGED <<pc, got_term, main_loop, timer, subscribed, pid_files,
                   children, procs, ev, events, env>>

on_hup ==
    /\ got_hup' = 1
    /\ UNCHANGED got_term
    /\ deliver

on_term ==
    /\ got_term' = 1
    /\ UNCHANGED got_hup
    /\ deliver

(***************************************************************************)
(* main(): the loop around g_main_loop_run.                                *)
(***************************************************************************)
\* while (!got_term)
main_check_term ==
    /\ pc = "check_term"
    /\ pc' = IF got_term = 1 THEN "shutdown" ELSE "enter_loop"
    /\ UNCHANGED <<flags, main_loop, timer, subscribed, cfgvars, children,
                   procs, ev, term, sigs, events, env>>

\* g_main_loop_run sets is_running and starts iterating
g_main_loop_run ==
    /\ pc = "enter_loop"
    /\ is_running' = TRUE
    /\ pc' = "wait"
    /\ UNCHANGED <<got_hup, got_term, main_loop, timer, subscribed, cfgvars,
                   children, procs, ev, term, sigs, events, env>>

\* g_main_loop_run returns once is_running is found cleared
g_main_loop_run_return ==
    /\ pc = "wait"
    /\ ~is_running
    /\ pc' = "after_run"
    /\ UNCHANGED <<flags, main_loop, timer, subscribed, cfgvars, children,
                   procs, ev, term, sigs, events, env>>

\* if (got_hup) ... else if (got_term) break
main_after_run ==
    /\ pc = "after_run"
    /\ pc' = IF got_hup = 1 THEN "reload"
             ELSE IF got_term = 1 THEN "shutdown"
             ELSE "check_term"
    /\ UNCHANGED <<flags, main_loop, timer, subscribed, cfgvars, children,
                   procs, ev, term, sigs, events, env>>

\* variant: the file is overlaid on the active config
handle_reload_overlays_active(file) ==
    /\ pc = "reload"
    /\ file \in env.files
    /\ LET r == load_config_from_file(file, config)
       IN  IF ~r.ok
           THEN UNCHANGED <<config, log_path, pid_path>>
           ELSE /\ config' = r.cfg
                /\ log_path' = apply_log_path(r.cfg)
                /\ pid_path' = apply_pid_path(r.cfg)
    /\ lastFile' = file
    /\ pc' = "clear_hup"
    /\ UNCHANGED <<flags, main_loop, timer, subscribed, pid_files,
                   children, procs, ev, term, sigs, events, env>>

\* g_main_context_invoke(NULL, handle_reload, NULL): the caller can acquire
\* the default context, so handle_reload runs before the call returns
handle_reload(file) ==
    /\ pc = "reload"
    /\ file \in env.files
    /\ LET r == load_config_from_file(file, load_default_config)
       IN  IF ~r.ok
           THEN UNCHANGED <<config, log_path, pid_path>>
           ELSE /\ config' = r.cfg
                /\ log_path' = apply_log_path(r.cfg)
                /\ pid_path' = apply_pid_path(r.cfg)
    /\ lastFile' = file
    /\ pc' = "clear_hup"
    /\ UNCHANGED <<flags, main_loop, timer, subscribed, pid_files,
                   children, procs, ev, term, sigs, events, env>>

\* variant: one flag word, cleared as a whole after the reload
main_clear_hup_clears_both_flags ==
    /\ pc = "clear_hup"
    /\ got_hup' = 0
    /\ got_term' = 0
    /\ pc' = "check_term"
    /\ UNCHANGED <<is_running, main_loop, timer, subscribed, cfgvars,
                   children, procs, ev, term, sigs, events, env>>

\* got_hup = 0; continue
main_clear_hup ==
    /\ pc = "clear_hup"
    /\ got_hup' = 0
    /\ pc' = "check_term"
    /\ UNCHANGED <<got_term, is_running, main_loop, timer, subscribed, cfgvars,
                   children, procs, ev, term, sigs, events, env>>

(***************************************************************************)
(* Child processes as the operating system sees them.                      *)
(***************************************************************************)
FreePids(ps) == {p \in PIDS : ps[p].st = "free"}

LowestOf(S) == {p \in S : \A q \in S : p <= q}

\* fork(): -1 on failure, otherwise a pid no live or unreaped process has.
\* Pids are interchangeable, so of the free pids the lowest stands for all;
\* last is the pid the caller has just reaped (0 when there is none), which
\* the code can tell from every other pid.
ForkResults(ps, last) ==
    {-1} \cup (FreePids(ps) \cap {last}) \cup LowestOf(FreePids(ps) \ {last})

NewProc(kind, gen) == [st |-> "run", kind |-> kind, gen |-> gen]

\* a running child exits on its own, on SIGTERM or on SIGKILL
child_exit(p) ==
    /\ Alive
    /\ procs[p].st = "run"
    /\ procs' = [procs EXCEPT ![p].st = "zombie"]
    /\ UNCHANGED <<pc, main_loop, timer, subscribed, flags, cfgvars, children,
                   ev, term, sigs, events, env>>

\* spawn_bridge(name, argv) in the parent: the table after the fork returned r
spawn_bridge(tab, r, name, argv) ==
    IF r = -1 THEN tab ELSE add_child(tab, r, name, g_strjoin_argv(argv))

(***************************************************************************)
(* Supervisor/Reaper: child_reaper_cb -> handle_sigchld.                   *)
(***************************************************************************)
\* variant: the timer callback returns without calling handle_sigchld
child_reaper_cb_reaps_nothing ==
    /\ pc = "wait"
    /\ is_running
    /\ timer
    /\ UNCHANGED vars

\* variant: the timer callback also runs between the steps of the shutdown loop
child_reaper_cb_during_shutdown ==
    /\ pc \in {"wait", "sd_iter"}
    /\ pc = "wait" => is_running
    /\ timer
    /\ pc' = IF \E p \in PIDS : procs[p].st = "zombie" THEN "reaper" ELSE "wait"
    /\ UNCHANGED <<flags, main_loop, timer, subscribed, cfgvars, children,
                   procs, ev, term, sigs, events, env>>

\* the timer fires; with nothing to reap handle_sigchld returns at once
child_reaper_cb ==
    /\ pc = "wait"
    /\ is_running
    /\ timer
    /\ pc' = IF \E p \in PIDS : procs[p].st = "zombie" THEN "reaper" ELSE "wait"
    /\ UNCHANGED <<flags, main_loop, timer, subscribed, cfgvars, children,
                   procs, ev, term, sigs, events, env>>

\* variant: the replacement's record keeps the count of the old record
restart_count_of_new_not_incremented(c) == c.restart_count

\* restart-once bookkeeping: the count stored in the replacement's record
restart_count_of_new(c) == c.restart_count + 1

\* variant: the record of the exited pid stays in the table
restart_bookkeeping_keeps_old(spawned, pid, r, c) ==
    IF r = -1 THEN spawned
    ELSE [spawned EXCEPT ![r].restart_count = restart_count_of_new(c)]

\* handle_sigchld after spawn_bridge returned r (not the reaped pid): the
\* count is stored in the new record, the old record is removed
restart_bookkeeping(spawned, pid, r, c) ==
    g_hash_table_remove(
        IF r = -1 THEN spawned
        ELSE [spawned EXCEPT ![r].restart_count = restart_count_of_new(c)],
        pid)

\* waitpid(-1, WNOHANG) finds nothing more: handle_sigchld returns
handle_sigchld_done ==
    /\ pc = "reaper"
    /\ \A p \in PIDS : procs[p].st # "zombie"
    /\ pc' = "wait"
    /\ UNCHANGED <<flags, main_loop, timer, subscribed, cfgvars, children,
                   procs, ev, term, sigs, events, env>>

\* one iteration of the while loop for the reaped pid, with r the result of
\* the fork in spawn_bridge (used only when a restart is attempted)
handle_sigchld(pid, r) ==
    /\ pc = "reaper"
    /\ procs[pid].st = "zombie"
    /\ LET reaped == [procs EXCEPT ![pid] = FreeProc]
           old == procs[pid]
       IN
       IF pid \in DOMAIN children /\ children[pid].restart_count < 1
       THEN LET c == children[pid]
                argv == argv_from_cmdline(c.cmdline)
                spawned == spawn_bridge(children, r, c.name, argv)
            IN  /\ r \in ForkResults(reaped, pid)
                /\ procs' = IF r = -1 THEN reaped
                            ELSE [reaped EXCEPT ![r] = NewProc(old.kind, old.gen + 1)]
                /\ IF r = pid
                   THEN \* the insert freed c, which the code goes on reading
                        \/ /\ children' = g_hash_table_remove(spawned, pid)
                           /\ pc' = "reaper"
                        \/ /\ children' = spawned
                           /\ pc' = "crashed"
                   ELSE /\ children' = restart_bookkeeping(spawned, pid, r, c)
                        /\ pc' = "reaper"
       ELSE /\ r = -1
            /\ procs' = reaped
            /\ children' = g_hash_table_remove(children, pid)
            /\ pc' = "reaper"
    /\ UNCHANGED <<flags, main_loop, timer, subscribed, cfgvars, ev, term,
                   sigs, events, env>>

(***************************************************************************)
(* DiscoveryListener: InterfacesAdded.                                     *)
(***************************************************************************)
\* the outcome of query_pcm_properties: failed, or the three strings
NoProp == <<>>
PropSets ==
    {[ok |-> FALSE, profile |-> NoProp, direction |-> NoProp, type |-> NoProp]} \cup
    [ok : {TRUE},
     profile : {NoProp, <<"a2dp", "-", "sink">>, <<"hfp">>},
     direction : {NoProp, <<"source">>, <<"sink">>},
     type : {NoProp, <<"sco">>}]

\* variant: without properties the role is always the A2DP sink
select_role_no_path_heuristic(object_path, props) ==
    LET tele(s) == strstr(s, <<"sco">>) \/ strstr(s, <<"hfp">>) \/ strstr(s, <<"hsp">>)
    IN  IF props.ok /\ strstr(props.profile, <<"a2dp">>)
        THEN IF props.direction = <<"source">> THEN "sink"
             ELSE IF props.direction = <<"sink">> THEN "source"
             ELSE "sink"
        ELSE IF props.ok /\ (tele(props.profile) \/ tele(props.type))
        THEN "sco"
        ELSE "sink"

\* variant: the Direction property is read the other way round
select_role_direction_swapped(object_path, props) ==
    LET tele(s) == strstr(s, <<"sco">>) \/ strstr(s, <<"hfp">>) \/ strstr(s, <<"hsp">>)
    IN  IF props.ok /\ strstr(props.profile, <<"a2dp">>)
        THEN IF props.direction = <<"source">> THEN "source"
             ELSE IF props.direction = <<"sink">> THEN "sink"
             ELSE "sink"
        ELSE IF props.ok /\ (tele(props.profile) \/ tele(props.type))
        THEN "sco"
        ELSE IF strstr(object_path, <<"sco">>) \/ strstr(object_path, <<"SCO">>)
        THEN "sco"
        ELSE "sink"

\* the spawn function on_bluealsa_pcm_added calls
select_role(object_path, props) ==
    LET tele(s) == strstr(s, <<"sco">>) \/ strstr(s, <<"hfp">>) \/ strstr(s, <<"hsp">>)
    IN  IF props.ok /\ strstr(props.profile, <<"a2dp">>)
        THEN IF props.direction = <<"source">> THEN "sink"
             ELSE IF props.direction = <<"sink">> THEN "source"
             ELSE "sink"
        ELSE IF props.ok /\ (tele(props.profile) \/ tele(props.type))
        THEN "sco"
        ELSE IF strstr(object_path, <<"sco">>) \/ strstr(object_path, <<"SCO">>)
        THEN "sco"
        ELSE "sink"

\* variant: on_bluealsa_pcm_added is entered whatever the interfaces are
interfaces_added_cb_any_interface(object_path, found_pcm) ==
    /\ pc = "wait"
    /\ is_running
    /\ subscribed
    /\ object_path \in env.paths
    /\ events < env.events
    /\ events' = events + 1
    /\ pc' = "added"
    /\ ev' = [kind |-> "added", path |-> object_path,
              mac |-> extract_mac_from_object_path(object_path)]
    /\ UNCHANGED <<flags, main_loop, timer, subscribed, cfgvars, children,
                   procs, term, sigs, env>>

\* interfaces_added_cb: the signal is dispatched; on_bluealsa_pcm_added is
\* entered when org.bluealsa.PCM1 is among the interfaces
interfaces_added_cb(object_path, found_pcm) ==
    /\ pc = "wait"
    /\ is_running
    /\ subscribed
    /\ object_path \in env.paths
    /\ events < env.events
    /\ events' = events + 1
    /\ IF ~found_pcm
       THEN UNCHANGED <<pc, ev>>
       ELSE /\ pc' = "added"
            /\ ev' = [kind |-> "added", path |-> object_path,
                      mac |-> extract_mac_from_object_path(object_path)]
    /\ UNCHANGED <<flags, main_loop, timer, subscribed, cfgvars, children,
                   procs, term, sigs, env>>

\* on_bluealsa_pcm_added: the duplicate check, the property query, then
\* spawn_a2dp_sink_for / spawn_a2dp_source_for / spawn_sco_for (mac) and
\* run_jack_autoconnect.  props is the outcome of query_pcm_properties,
\* available the result of is_alsa_device_available, r1 and r2 the results
\* of the two forks.
on_bluealsa_pcm_added(props, available, r1, r2) ==
    /\ pc = "added"
    /\ IF ev.mac = NULL \/ is_bridge_running_for_mac(children, ev.mac)
       THEN /\ r1 = -1 /\ r2 = -1
            /\ UNCHANGED <<children, procs>>
       ELSE LET mac == ev.mac
                role == select_role(ev.path, props)
                skip == is_bridge_running_for_mac(children, mac) \/ ~available
                argv == bridge_argv(role, mac, config)
                tab1 == IF skip THEN children
                        ELSE spawn_bridge(children, r1, job_name(role, mac), argv)
                ps1 == IF skip \/ r1 = -1 THEN procs
                       ELSE [procs EXCEPT ![r1] = NewProc("bridge", 0)]
            IN  /\ r1 \in (IF skip THEN {-1} ELSE ForkResults(procs, 0))
                /\ r2 \in ForkResults(ps1, 0)
                /\ children' = IF r2 = -1 THEN tab1
                               ELSE add_child(tab1, r2, AUTOCONNECT_NAME, AUTOCONNECT)
                /\ procs' = IF r2 = -1 THEN ps1
                            ELSE [ps1 EXCEPT ![r2] = NewProc("helper", 0)]
    /\ pc' = "wait"
    /\ ev' = NoEv
    /\ UNCHANGED <<flags, main_loop, timer, subscribed, cfgvars, term, sigs,
                   events, env>>

(***************************************************************************)
(* terminate_child_graceful(pid, timeout_secs).  It is entered from the    *)
(* device-removed handler and from the shutdown loop (ev.kind tells which).*)
(***************************************************************************)
\* kill(pid, SIGTERM); waited = 0
terminate_child_graceful(p, timeout_secs) ==
    /\ ev' = IF procs[p].st = "free" THEN ev
             ELSE [ev EXCEPT !.termed = @ \cup {p}]
    /\ term' = [pid |-> p, waited |-> 0, timeout |-> timeout_secs,
                elapsed |-> 0, intr |-> FALSE]
    /\ pc' = "term_check"

\* the caller's statements after terminate_child_graceful returned; e is ev
\* as terminate_child_graceful left it
terminate_return(e) ==
    IF ev.kind = "removed"
    THEN /\ children' = remove_child(children, term.pid)
         /\ ev' = [e EXCEPT !.invalid = TRUE]
         /\ pc' = "rm_iter"
    ELSE /\ children' = children
         /\ ev' = [e EXCEPT !.todo = @ \ {term.pid}]
         /\ pc' = "sd_iter"

\* the loop condition, and what follows the loop once it is false
terminate_child_graceful_check ==
    /\ pc = "term_check"
    /\ LET p == term.pid
       IN  \/ /\ procs[p].st = "zombie"       \* waitpid reaps it
              /\ procs' = [procs EXCEPT ![p] = FreeProc]
              /\ terminate_return(ev)
              /\ term' = NoTerm
           \/ /\ procs[p].st = "free"         \* waitpid fails: not a child
              /\ UNCHANGED procs
              /\ terminate_return(ev)
              /\ term' = NoTerm
           \/ /\ procs[p].st = "run"
              /\ term.waited < term.timeout
              /\ pc' = "term_sleep"
              /\ UNCHANGED <<procs, children, ev, term>>
           \/ /\ procs[p].st = "run"          \* still there: kill(pid, SIGKILL)
              /\ ~(term.waited < term.timeout)
              /\ UNCHANGED procs
              /\ terminate_return([ev EXCEPT !.killed = @ \cup {p}])
              /\ term' = NoTerm
    /\ UNCHANGED <<flags, main_loop, timer, subscribed, cfgvars, sigs, events,
                   env>>

\* sleep(1); waited++  (a signal delivered during the sleep ends it early)
terminate_child_graceful_sleep ==
    /\ pc = "term_sleep"
    /\ term' = [term EXCEPT !.waited = @ + 1,
                            !.elapsed = IF term.intr THEN @ ELSE @ + 1,
                            !.intr = FALSE]
    /\ pc' = "term_check"
    /\ UNCHANGED <<flags, main_loop, timer, subscribed, cfgvars, children,
                   procs, ev, sigs, events, env>>

(***************************************************************************)
(* DiscoveryListener: InterfacesRemoved.                                   *)
(***************************************************************************)
\* variant: every entry is taken to belong to the device
Matching_every_entry(tab, mac) == DOMAIN tab

Matching(tab, mac) == {p \in DOMAIN tab : strstr(tab[p].name, mac)}

\* interfaces_removed_cb and on_bluealsa_pcm_removed up to the iteration
interfaces_removed_cb(object_path) ==
    /\ pc = "wait"
    /\ is_running
    /\ subscribed
    /\ object_path \in env.paths
    /\ events < env.events
    /\ events' = events + 1
    /\ LET mac == extract_mac_from_object_path(object_path)
       IN  IF mac = NULL
           THEN UNCHANGED <<pc, ev>>
           ELSE /\ pc' = "rm_iter"
                /\ ev' = [kind |-> "removed", mac |-> mac, invalid |-> FALSE,
                          matched |-> Matching(children, mac),
                          termed |-> {}, killed |-> {}]
    /\ UNCHANGED <<flags, main_loop, timer, subscribed, cfgvars, children,
                   procs, term, sigs, env>>

\* g_hash_table_iter_next reaches the entry of pid p, whose name contains mac
on_bluealsa_pcm_removed(p) ==
    /\ pc = "rm_iter"
    /\ p \in Matching(children, ev.mac)
    /\ terminate_child_graceful(p, config.child_term_timeout)
    /\ UNCHANGED <<flags, main_loop, timer, subscribed, cfgvars, children,
                   procs, sigs, events, env>>

\* g_hash_table_iter_next returns FALSE: no entry is left to visit, or the
\* table was modified under the iterator (remove_child inside the loop), so
\* that the iterator is invalid and the walk may end at any entry
on_bluealsa_pcm_removed_done ==
    /\ pc = "rm_iter"
    /\ Matching(children, ev.mac) = {} \/ ev.invalid
    /\ pc' = "wait"
    /\ ev' = NoEv
    /\ UNCHANGED <<flags, main_loop, timer, subscribed, cfgvars, children,
                   procs, term, sigs, events, env>>

(***************************************************************************)
(* main(): shutdown.                                                       *)
(***************************************************************************)
main_shutdown ==
    /\ pc = "shutdown"
    /\ ev' = [kind |-> "shutdown", todo |-> DOMAIN children,
              matched |-> DOMAIN children, termed |-> {}, killed |-> {}]
    /\ pc' = "sd_iter"
    /\ UNCHANGED <<flags, main_loop, timer, subscribed, cfgvars, children,
                   procs, term, sigs, events, env>>

\* variant: the shutdown loop passes over the entry without terminating it
main_shutdown_next_skips_child(p) ==
    /\ pc = "sd_iter"
    /\ p \in ev.todo
    /\ ev' = [ev EXCEPT !.todo = @ \ {p}]
    /\ UNCHANGED <<pc, flags, main_loop, timer, subscribed, cfgvars, children,
                   procs, term, sigs, events, env>>

main_shutdown_next(p) ==
    /\ pc = "sd_iter"
    /\ p \in ev.todo
    /\ terminate_child_graceful(p, config.child_term_timeout)
    /\ UNCHANGED <<flags, main_loop, timer, subscribed, cfgvars, children,
                   procs, sigs, events, env>>

\* unsubscribe_bluealsa_signals, g_object_unref, g_main_loop_unref
main_cleanup ==
    /\ pc = "sd_iter"
    /\ ev.todo = {}
    /\ subscribed' = FALSE
    /\ main_loop' = "freed"
    /\ pc' = "exit"
    /\ UNCHANGED <<flags, timer, cfgvars, children, procs, ev, term, sigs,
                   events, env>>

\* g_hash_table_destroy, remove_pid_file(config.pid_file), return
main_exit ==
    /\ pc = "exit"
    /\ children' = EmptyTable
    /\ pid_files' = pid_files \ {config.pid_file}
    /\ pc' = "stopped"
    /\ UNCHANGED <<flags, main_loop, timer, subscribed, config, log_path,
                   pid_path, lastFile, procs, ev, term, sigs, events, env>>

(***************************************************************************)
(* The daemon and its environment.                                         *)
(***************************************************************************)
Next ==
    \/ main_start
    \/ \E f \in Files, b \in BOOLEAN : init_services(f, b)
    \/ main_setup
    \/ on_hup
    \/ on_term
    \/ main_check_term
    \/ g_main_loop_run
    \/ g_main_loop_run_return
    \/ main_after_run
    \/ \E f \in Files : handle_reload(f)
    \/ main_clear_hup
    \/ \E p \in PIDS : child_exit(p)
    \/ child_reaper_cb
    \/ handle_sigchld_done
    \/ \E p \in PIDS, r \in PIDS \cup {-1} : handle_sigchld(p, r)
    \/ \E o \in Paths, f \in BOOLEAN : interfaces_added_cb(o, f)
    \/ \E pr \in PropSets, a \in BOOLEAN, r1 \in PIDS \cup {-1}, r2 \in PIDS \cup {-1} :
           on_bluealsa_pcm_added(pr, a, r1, r2)
    \/ \E o \in Paths : interfaces_removed_cb(o)
    \/ \E p \in PIDS : on_bluealsa_pcm_removed(p)
    \/ on_bluealsa_pcm_removed_done
    \/ terminate_child_graceful_check
    \/ terminate_child_graceful_sleep
    \/ main_shutdown
    \/ \E p \in PIDS : main_shutdown_next(p)
    \/ main_cleanup
    \/ main_exit

Spec == Init /\ [][Next]_vars

\* the steps of the daemon's own thread; the single thread always goes on,
\* while signals, bus traffic and child exits are up to the environment
DaemonStep ==
    \/ main_start
    \/ \E f \in Files, b \in BOOLEAN : init_services(f, b)
    \/ main_setup
    \/ main_check_term
    \/ g_main_loop_run
    \/ g_main_loop_run_return
    \/ main_after_run
    \/ \E f \in Files : handle_reload(f)
    \/ main_clear_hup
    \/ child_reaper_cb
    \/ handle_sigchld_done
    \/ \E p \in PIDS, r \in PIDS \cup {-1} : handle_sigchld(p, r)
    \/ \E pr \in PropSets, a \in BOOLEAN, r1 \in PIDS \cup {-1}, r2 \in PIDS \cup {-1} :
           on_bluealsa_pcm_added(pr, a, r1, r2)
    \/ \E p \in PIDS : on_bluealsa_pcm_removed(p)
    \/ on_bluealsa_pcm_removed_done
    \/ terminate_child_graceful_check
    \/ terminate_child_graceful_sleep
    \/ main_shutdown
    \/ \E p \in PIDS : main_shutdown_next(p)
    \/ main_cleanup
    \/ main_exit

FairSpec == Spec /\ WF_vars(DaemonStep)

(***************************************************************************)
(* Properties.                                                             *)
(***************************************************************************)
IsBridgeName(name) == name # AUTOCONNECT_NAME

\* the daemon is in the Running state of the design: init_services has
\* succeeded and shutdown has not begun
Running ==
    pc \in {"setup", "check_term", "enter_loop", "wait", "after_run", "reload",
            "clear_hup", "reaper", "added", "rm_iter"}
    \/ (pc \in {"term_check", "term_sleep"} /\ ev.kind = "removed")

\* C1: a device-added event handled while the table already holds an entry
\* whose job name contains the address spawns nothing and leaves the table
\* as it was, with at most one entry per role for that address.
C1_IdempotentLaunch ==
    [][(pc = "added" /\ pc' # "added" /\ Matching(children, ev.mac) # {})
        => (/\ children' = children /\ procs' = procs /\ pc' = "wait"
            /\ \A role \in Roles :
                  Cardinality({p \in DOMAIN children' :
                      children'[p].name = job_name(role, ev.mac)}) <= 1)]_vars

C1_Witness == pc = "added" /\ ev.mac # NULL /\ Matching(children, ev.mac) # {}

\* C2: the table never holds two bridge entries with the same job name
\* (same role and device address).
C2_NoDuplicateBridge ==
    \A p, q \in DOMAIN children :
        (p # q /\ children[p].name = children[q].name)
            => ~IsBridgeName(children[p].name)

C2_Witness ==
    /\ pc = "added"
    /\ \E p \in Matching(children, ev.mac) :
          IsBridgeName(children[p].name) /\ children[p].restart_count = 1

\* C3: a bridge process is the original of a device-added launch or its one
\* replacement, never a replacement's replacement; when a record with
\* restart count 1 is reaped, nothing is started and the record is removed.
C3_RestartOnce ==
    [][/\ \A p \in PIDS : procs'[p].kind = "bridge" => procs'[p].gen <= 1
       /\ \A p \in PIDS :
            (/\ pc = "reaper" /\ procs[p].st = "zombie" /\ procs'[p] # procs[p]
             /\ p \in DOMAIN children /\ children[p].restart_count >= 1)
            => (/\ p \notin DOMAIN children'
                /\ procs'[p].st = "free"
                /\ \A q \in PIDS \ {p} : procs'[q] = procs[q])]_vars

C3_Witness ==
    /\ pc = "reaper"
    /\ \E p \in DOMAIN children :
          /\ procs[p].st = "zombie" /\ procs[p].kind = "bridge" /\ procs[p].gen = 1
          /\ children[p].restart_count = 1

\* C4: when the device-removed handler returns, no entry whose job name
\* contains the address is left and every entry that matched was sent SIGTERM.
C4_RemovalCleansUp ==
    [][(pc = "rm_iter" /\ pc' = "wait")
        => (Matching(children', ev.mac) = {} /\ ev.matched \subseteq ev.termed)]_vars

\* C5: SIGKILL is sent only to a child that was sent SIGTERM, is still
\* running and has been waited for during the whole grace period.
C5_GracefulThenForceful ==
    [][(pc = "term_check" /\ term.pid \in ev'.killed /\ term.pid \notin ev.killed)
        => (/\ term.pid \in ev.termed
            /\ procs[term.pid].st = "run"
            /\ term.elapsed >= term.timeout)]_vars

\* C6: a reload from a file that gives a key an unparsable value leaves the
\* live config as it was.
C6_ReloadAtomicity ==
    [][(pc = "reload" /\ pc' = "clear_hup" /\ lastFile' = FileGarbled)
        => config' = config]_vars

\* C7: a reload whose file cannot be opened leaves the config, the log path
\* and the pid path as they were.
C7_FailedReloadKeepsConfig ==
    [][(pc = "reload" /\ pc' = "clear_hup" /\ ~lastFile'.exists)
        => (config' = config /\ log_path' = log_path /\ pid_path' = pid_path)]_vars

C7_Witness ==
    /\ pc = "clear_hup"
    /\ ~lastFile.exists
    /\ config # load_default_config

\* C8: with the config file absent and the bus available, init_services
\* succeeds with the built-in defaults, and the daemon is Running with them.
C8_StartsWithoutConfig ==
    [][/\ init_services(Absent, TRUE)
            => (pc' = "setup" /\ config' = load_default_config /\ subscribed')
       /\ (Running' /\ sigs' = 0 /\ ~lastFile'.exists)
            => config' = load_default_config]_vars

C8_Witness ==
    pc = "wait" /\ is_running /\ sigs = 0 /\ ~lastFile.exists
    /\ config = load_default_config

\* C9: the delivery of a signal leaves ProcessTable, the processes and the
\* config alone; the config changes only in handle_reload, which main()
\* enters only after g_main_loop_run has returned.
C9_SignalsOnlySetFlags ==
    [][/\ (sigs' # sigs)
            => (children' = children /\ procs' = procs /\ config' = config
                /\ ev' = ev /\ pid_files' = pid_files)
       /\ (config' # config) => pc \in {"init", "reload"}
       /\ (pc' = "reload" /\ pc # "reload") => pc = "after_run"]_vars

C9_Witness ==
    pc \in {"added", "rm_iter", "reaper"} /\ got_hup = 1 /\ ~is_running

\* C10: once the main loop exists, a delivered terminate signal leads to
\* Stopped; a run in which the process has died of a memory error is left
\* out of the statement.
C10_TermReachesStopped ==
    (got_term = 1 /\ main_loop = "live") ~> (pc \in {"stopped", "crashed"})

\* C11: a SIGHUP delivered while Running (the flag was clear while Running
\* and the main loop existed, and is set later, still Running) leads to main()
\* finding the flag set after g_main_loop_run returned, which is where the
\* reload starts; runs ended by a terminate signal or a memory error are
\* left out of the statement.
C11_HupLeadsToReload ==
    []((Running /\ main_loop = "live" /\ got_hup = 0)
        => []((Running /\ got_hup = 1)
                => <>(\/ (pc = "after_run" /\ got_hup = 1)
                      \/ got_term = 1
                      \/ pc = "crashed")))

\* C12: the shutdown loop covers exactly the entries of the table, and once
\* it is over every one of them was sent SIGTERM and has exited or was sent
\* SIGKILL.
C12_ShutdownTerminatesAll ==
    /\ (pc \in {"sd_iter", "term_check", "term_sleep"} /\ ev.kind = "shutdown")
            => ev.matched = DOMAIN children
    /\ (pc \in {"exit", "stopped"})
            => /\ ev.kind = "shutdown"
               /\ ev.todo = {}
               /\ ev.matched \subseteq ev.termed
               /\ \A p \in ev.matched : procs[p].st # "run" \/ p \in ev.killed

C12_Witness ==
    /\ pc = "stopped"
    /\ ev.killed # {}
    /\ ev.matched \ ev.killed # {}

\* C13: after a clean shutdown the pid file written at startup (the only pid
\* file the daemon ever writes) no longer exists.
C13_PidFileRemoved == (pc = "stopped") => pid_files = {}

\* C14: when the system bus cannot be reached init_services fails and main
\* returns at once: nothing is subscribed, no timer is installed, no main
\* loop is created, no child exists, and the process takes no further step.
C14_BusFailureIsFatal ==
    [][/\ (\E f \in Files : init_services(f, FALSE)) => pc' = "failed"
       /\ (pc' = "failed")
            => (/\ pc = "init"
                /\ ~subscribed' /\ ~timer' /\ main_loop' = "null"
                /\ children' = EmptyTable
                /\ \A p \in PIDS : procs'[p].st = "free")
       /\ pc # "failed"]_vars

C14_Witness == pc = "failed" /\ ~subscribed /\ pid_files # {}

\* C15: a step that takes the daemon out of Running is main() starting its
\* shutdown with the terminate flag set.
C15_OnlyTermLeavesRunning ==
    [][(Running /\ ~Running') => (got_term = 1 /\ pc' = "shutdown")]_vars

\* the bridge entries a step adds to the table
NewBridges ==
    {p \in DOMAIN children' :
        /\ IsBridgeName(children'[p].name)
        /\ (p \notin DOMAIN children \/ children[p] # children'[p])}

Telephony(s) == strstr(s, <<"sco">>) \/ strstr(s, <<"hfp">>) \/ strstr(s, <<"hsp">>)

\* the role the design's table gives for a successful property query
\* ("none" where the table has no row)
ExpectedRole(props) ==
    IF strstr(props.profile, <<"a2dp">>)
    THEN CASE props.direction = <<"source">> -> "sink"
           [] props.direction = <<"sink">> -> "source"
           [] props.direction = NoProp -> "sink"
           [] OTHER -> "none"
    ELSE IF Telephony(props.profile) \/ Telephony(props.type) THEN "sco"
    ELSE "none"

\* C16: when the duplicate check passes the handler adds at most one bridge
\* entry, and when the property query succeeded with properties for which
\* the table has a row, the entry added by a successful launch has the job
\* name of the role the table gives.
C16_RoleFromProperties ==
    [][(pc = "added" /\ ev.mac # NULL /\ Matching(children, ev.mac) = {})
        => /\ Cardinality(NewBridges) <= 1
           /\ \A props \in {pr \in PropSets : pr.ok /\ ExpectedRole(pr) # "none"},
                 r1 \in NewBridges, r2 \in (DOMAIN children' \ NewBridges) \cup {-1} :
                 on_bluealsa_pcm_added(props, TRUE, r1, r2)
                 => children'[r1].name = job_name(ExpectedRole(props), ev.mac)]_vars

C16_Witness ==
    /\ pc = "wait"
    /\ \E p \in DOMAIN children :
          children[p].name = <<"bt_out_", "A", ":", "1">>
    /\ \E p \in DOMAIN children :
          children[p].name = <<"bt_sco_", "B", ":", "1">>

\* the outcome of a property query that failed
QueryFailed == CHOOSE pr \in PropSets : ~pr.ok

C18_JobNamesAndDevices ==
    [][(pc = "added" /\ ev.mac # NULL /\ Matching(children, ev.mac) = {})
        => /\ \A p \in NewBridges :
                LET n == children'[p].name
                    argv == argv_from_cmdline(children'[p].cmdline)
                    a2dp == <<"bluealsa:DEV=">> \o ev.mac \o <<",PROFILE=a2dp">>
                    sco == <<"bluealsa:DEV=">> \o ev.mac \o <<",PROFILE=sco">>
                IN  /\ argv[2] = <<"-j">> /\ argv[3] = n /\ argv[4] = <<"-d">>
                    /\ \/ /\ n = <<"bt_in_">> \o ev.mac
                          /\ argv[1] = <<"alsa_in">> /\ argv[5] = a2dp
                          /\ job_name("sink", ev.mac) = n
                          /\ probe_stream("sink") = "CAPTURE"
                       \/ /\ n = <<"bt_out_">> \o ev.mac
                          /\ argv[1] = <<"alsa_out">> /\ argv[5] = a2dp
                          /\ job_name("source", ev.mac) = n
                          /\ probe_stream("source") = "PLAYBACK"
                       \/ /\ n = <<"bt_sco_">> \o ev.mac
                          /\ argv[1] = <<"alsa_in">> /\ argv[5] = sco
                          /\ job_name("sco", ev.mac) = n
                          /\ probe_stream("sco") = "CAPTURE"
           /\ \A props \in {pr \in PropSets : pr.ok /\ strstr(pr.profile, <<"a2dp">>)
                                              /\ pr.direction = <<"source">>},
                 r1 \in NewBridges, r2 \in (DOMAIN children' \ NewBridges) \cup {-1} :
                 on_bluealsa_pcm_added(props, TRUE, r1, r2)
                 => {p \in DOMAIN children' :
                        children'[p].name = <<"bt_in_">> \o ev.mac} = {r1}]_vars

C18_Witness ==
    /\ pc = "wait"
    /\ \E p \in DOMAIN children :
          /\ children[p].name = <<"bt_in_", "A", ":", "1">>
          /\ argv_from_cmdline(children[p].cmdline)[5]
                = <<"bluealsa:DEV=", "A", ":", "1", ",PROFILE=a2dp">>
    /\ \E p \in DOMAIN children :
          /\ children[p].name = <<"bt_sco_", "B", ":", "1">>
          /\ argv_from_cmdline(children[p].cmdline)[5]
                = <<"bluealsa:DEV=", "B", ":", "1", ",PROFILE=sco">>

\* C19: the command line of a bridge entry added by a device-added event
\* carries rate, period size, period count and channel count of the config
\* active at that moment (SCO fields for bt_sco_, A2DP fields otherwise);
\* and while the last load or reload was a successful one of a file with
\* A2DP_PERIOD=512, the active period size is 512.
C19_CommandLineFromConfig ==
    [][/\ (pc = "added" /\ ev.mac # NULL /\ Matching(children, ev.mac) = {})
            => \A p \in NewBridges :
                 LET argv == argv_from_cmdline(children'[p].cmdline)
                     tele == children'[p].name = <<"bt_sco_">> \o ev.mac
                 IN  /\ Len(argv) = 13
                     /\ argv[6] = <<"-r">> /\ argv[8] = <<"-p">>
                     /\ argv[10] = <<"-n">> /\ argv[12] = <<"-c">>
                     /\ argv[7] = <<ToString(IF tele THEN config.sco_rate
                                             ELSE config.a2dp_rate)>>
                     /\ argv[9] = <<ToString(IF tele THEN config.sco_period
                                             ELSE config.a2dp_period)>>
                     /\ argv[11] = <<ToString(IF tele THEN config.sco_nperiods
                                              ELSE config.a2dp_nperiods)>>
                     /\ argv[13] = <<ToString(IF tele THEN config.sco_channels
                                              ELSE config.a2dp_channels)>>
       /\ (lastFile' = FileTuned) => config'.a2dp_period = 512]_vars

C19_Witness ==
    /\ pc = "wait"
    /\ lastFile = FileTuned
    /\ \E p \in DOMAIN children :
          /\ children[p].name = <<"bt_in_", "A", ":", "1">>
          /\ argv_from_cmdline(children[p].cmdline)[9] = <<"512">>

\* the bridge entries of the table whose job name contains the address
BridgesOf(tab, mac) ==
    {p \in DOMAIN tab : IsBridgeName(tab[p].name) /\ strstr(tab[p].name, mac)}

\* the table never holds two bridge entries for the address A:1
OneBridgePerAddress == Cardinality(BridgesOf(children, <<"A", ":", "1">>)) <= 1

\* C20: when the device-added event for the telephony PCM of a device is
\* handled while the table holds the A2DP sink bridge of the same device
\* (a pid being free for the fork), the table ends up with an entry for
\* each role.
C20_RolesCoexist ==
    [][(/\ pc = "added" /\ pc' = "wait"
        /\ ev.path = PathASco
        /\ \E p \in DOMAIN children : children[p].name = <<"bt_in_", "A", ":", "1">>
        /\ FreePids(procs) # {})
        => (/\ \E p \in DOMAIN children' :
                  children'[p].name = <<"bt_in_", "A", ":", "1">>
            /\ \E p \in DOMAIN children' :
                  children'[p].name = <<"bt_sco_", "A", ":", "1">>)]_vars

\* C21: while Running, an exited supervised child is reaped within one time
\* unit: no full time unit passes on the main thread (a sleep(1) that runs to
\* its end inside the device-removed handler) with a supervised child, other
\* than the one being terminated, exited before it and still not reaped
\* after it.
C21_ReapedWithinOnePeriod ==
    [][(/\ pc = "term_sleep" /\ pc' = "term_check"
        /\ ev.kind = "removed" /\ ~term.intr)
        => \A p \in DOMAIN children \ {term.pid} :
              ~(procs[p].st = "zombie" /\ procs'[p].st = "zombie")]_vars

\* the helper processes a step starts
NewHelpers ==
    {p \in PIDS : procs[p].st = "free" /\ procs'[p].st = "run"
                  /\ procs'[p].kind = "helper"}

\* C22: the device-added handler starts at most one helper, and starts none
\* unless it has started a bridge.
C22_HelperOnlyAfterLaunch ==
    [][(pc = "added")
        => (/\ Cardinality(NewHelpers) <= 1
            /\ NewHelpers # {} => NewBridges # {})]_vars

\* the config the design gives for each file of the model: the defaults
\* with the file's recognised KEY=VALUE lines written over them
OverlayOf(file) ==
    IF file = FileTuned
    THEN [load_default_config EXCEPT !.a2dp_period = 512,
                                     !.child_term_timeout = 2,
                                     !.pid_file = <<"/run/ab.pid">>]
    ELSE IF file = FileGarbled
    THEN [load_default_config EXCEPT !.a2dp_period = atoi(<<"a", "b", "c">>)]
    ELSE IF file = FileCapped
    THEN [load_default_config EXCEPT !.max_bridges = 1]
    ELSE load_default_config

\* the lines of the model's files that carry no recognised KEY=VALUE
InertLines ==
    {<<"#", " ", "tuned">>, <<>>, <<"FUTURE_KEY", "=", "1">>, <<"no", " ", "equals">>}

\* C23: after a successful load or reload the active config is the defaults
\* overlaid with the file's recognised lines, whatever the config was
\* before; comment lines, blank lines, lines without '=' and unknown keys
\* change no field.
C23_ConfigIsFunctionOfFile ==
    [][/\ (pc \in {"init", "reload"} /\ pc' # pc /\ lastFile'.exists)
            => config' = OverlayOf(lastFile')
       /\ (pc \in {"init", "reload"} /\ pc' # pc)
            => \A line \in InertLines :
                  /\ parse_line(line, config) = config
                  /\ parse_line(line, config') = config']_vars

C23_Witness ==
    /\ pc = "clear_hup"
    /\ lastFile = FileGarbled
    /\ <<"/run/ab.pid">> \in pid_files
    /\ config.pid_file = DEFAULT_PID
    /\ config.child_term_timeout = 4

\* C24: each event is handled to its end before the next one; a
\* device-removed event for an address that had entries leaves no entry
\* whose name contains the address, and a device-added event that launches
\* leaves exactly one bridge entry for the address.
C24_AddedRemovedInOrder ==
    [][/\ (pc = "rm_iter" /\ pc' = "wait" /\ ev.matched # {})
            => Matching(children', ev.mac) = {}
       /\ (pc = "added" /\ pc' = "wait" /\ NewBridges # {})
            => Cardinality(BridgesOf(children', ev.mac)) = 1
       /\ (pc \in {"added", "rm_iter", "term_check", "term_sleep"})
            => events' = events]_vars

\* the processes a step of the reaper starts
Restarted == {r \in PIDS : procs'[r].st = "run" /\ procs[r].st # "run"}

\* C25: a reaper step that reaps process p leaves no entry for p unless p's
\* pid is that of the replacement, and when a replacement was started the
\* table holds an entry for it with the job name of the reaped entry.
C25_ReapedEntryRemoved ==
    [][\A p \in PIDS :
          (pc = "reaper" /\ procs[p].st = "zombie" /\ procs'[p] # procs[p])
          => (/\ (p \notin Restarted) => p \notin DOMAIN children'
              /\ \A r \in Restarted :
                    /\ r \in DOMAIN children'
                    /\ p \in DOMAIN children
                    /\ children'[r].name = children[p].name)]_vars

\* the table entries a step creates or replaces
NewEntries ==
    {p \in DOMAIN children' : p \notin DOMAIN children \/ children[p] # children'[p]}

\* C26: every entry has restart count 0 or 1; the entries the device-added
\* handler creates have count 0, the entries the reaper creates have count 1.
C26_RestartCountZeroOrOne ==
    [][/\ \A p \in DOMAIN children' : children'[p].restart_count \in {0, 1}
       /\ (pc = "added")
            => \A p \in NewEntries : children'[p].restart_count = 0
       /\ (pc = "reaper" /\ pc' # "crashed")
            => \A p \in NewEntries : children'[p].restart_count = 1]_vars

C26_Witness ==
    /\ pc = "wait"
    /\ \E p, q \in DOMAIN children :
          /\ children[p].restart_count = 0 /\ procs[p].st = "run"
          /\ children[q].restart_count = 1 /\ procs[q].st = "run"
          /\ IsBridgeName(children[q].name)

\* C27: the record of a replacement has the job name and the command line
\* of the record it replaces, whatever the config is by then; joining and
\* splitting are inverse on the command lines the daemon builds.
C27_RestartKeepsArgv ==
    [][/\ \A p \in PIDS :
            (pc = "reaper" /\ procs[p].st = "zombie" /\ procs'[p] # procs[p])
            => \A r \in Restarted \cap DOMAIN children' :
                  /\ children'[r].name = children[p].name
                  /\ children'[r].cmdline = children[p].cmdline
                  /\ g_strjoin_argv(argv_from_cmdline(children[p].cmdline))
                        = children[p].cmdline
       /\ (pc = "added")
            => \A p \in NewBridges :
                  \E role \in Roles :
                     argv_from_cmdline(children'[p].cmdline)
                        = bridge_argv(role, ev.mac, config)]_vars

C27_Witness ==
    /\ pc = "wait"
    /\ config.a2dp_period = 512
    /\ \E q \in DOMAIN children :
          /\ children[q].restart_count = 1
          /\ children[q].name = <<"bt_in_", "A", ":", "1">>
          /\ argv_from_cmdline(children[q].cmdline)[9] = <<"1024">>

\* the device-added handler runs with the ALSA availability probe failing
ProbeFailed ==
    /\ pc = "added"
    /\ ev.mac # NULL
    /\ ~is_bridge_running_for_mac(children, ev.mac)
    /\ \E props \in PropSets, r2 \in PIDS \cup {-1} :
          on_bluealsa_pcm_added(props, FALSE, -1, r2)

\* C28: when the availability probe fails no bridge process is started and
\* no bridge entry is added, and the duplicate check of a later device-added
\* event for the same address finds nothing, so the launch is attempted
\* again.
C28_ProbeFailureSkipsLaunch ==
    [][ProbeFailed
        => (/\ NewBridges = {}
            /\ \A p \in PIDS : procs'[p].kind = "bridge" => procs'[p] = procs[p]
            /\ ~is_bridge_running_for_mac(children', ev.mac))]_vars

\* the device-added handler runs with the fork in spawn_bridge failing
ForkFailed ==
    /\ pc = "added"
    /\ ev.mac # NULL
    /\ ~is_bridge_running_for_mac(children, ev.mac)
    /\ \E props \in PropSets, r2 \in PIDS \cup {-1} :
          on_bluealsa_pcm_added(props, TRUE, -1, r2)

\* the reaper reaps the bridge p whose record was created by a restart
ReapsRestarted(p) ==
    /\ pc = "reaper"
    /\ procs[p].st = "zombie"
    /\ procs'[p] # procs[p]
    /\ p \in DOMAIN children
    /\ IsBridgeName(children[p].name)
    /\ children[p].restart_count = 1

\* C29: a failed fork leaves no bridge entry, the daemon stays Running and
\* the duplicate check of the next device-added event for the address finds
\* nothing; a bridge that cannot be executed exits, and the second time the
\* reaper sees it exit (the record of a replacement) nothing is started and
\* no entry with its job name is left, so a device-added event launches
\* again.
C29_LaunchFailureRetries ==
    [][/\ ForkFailed
          => (/\ NewBridges = {}
              /\ Running'
              /\ ~is_bridge_running_for_mac(children', ev.mac))
       /\ \A p \in PIDS :
             ReapsRestarted(p)
             => (/\ Restarted = {}
                 /\ \A q \in DOMAIN children' :
                       children'[q].name # children[p].name)]_vars

\* C30: handling an InterfacesAdded signal without org.bluealsa.PCM1 among
\* its interfaces returns to the main loop without entering the
\* device-added handler: no process is started, the table is unchanged.
C30_OtherInterfacesIgnored ==
    [][(pc = "wait" /\ \E object_path \in env.paths :
                          interfaces_added_cb(object_path, FALSE))
        => (/\ pc' = "wait"
            /\ children' = children
            /\ procs' = procs
            /\ ev' = ev)]_vars

C30_Witness ==
    /\ pc = "wait"
    /\ is_running
    /\ events = 2
    /\ Cardinality(DOMAIN children) = 2
    /\ \E p \in DOMAIN children :
          /\ children[p].name = <<"bt_in_", "A", ":", "1">>
          /\ children[p].restart_count = 0
          /\ procs[p].st = "run"

\* the reaper reaps process p, for which the table holds no entry
ReapsUntracked(p) ==
    /\ pc = "reaper"
    /\ procs[p].st = "zombie"
    /\ procs'[p] # procs[p]
    /\ p \notin DOMAIN children

\* C31: the device-removed handler leaves no entry for a child it has
\* terminated, a process without an entry gets none while it is unreaped,
\* and the reaper reaping a process without an entry starts nothing and
\* leaves the table unchanged.
C31_RemovedChildNotRestarted ==
    [][/\ (pc = "term_check" /\ pc' = "rm_iter")
            => term.pid \notin DOMAIN children'
       /\ \A p \in PIDS :
             (procs[p].st # "free" /\ p \notin DOMAIN children)
             => p \notin DOMAIN children'
       /\ \A p \in PIDS :
             ReapsUntracked(p)
             => (/\ children' = children
                 /\ Restarted = {}
                 /\ procs' = [procs EXCEPT ![p] = FreeProc])]_vars

\* the reaper is about to reap a bridge that the device-removed handler
\* killed after the grace period and whose entry it removed
C31_Witness ==
    /\ pc = "reaper"
    /\ \E p \in PIDS :
          /\ procs[p] = [st |-> "zombie", kind |-> "bridge", gen |-> 0]
          /\ p \notin DOMAIN children

\* the entries whose job name does not contain the address of the
\* device-removed event being handled
OtherEntries == {q \in DOMAIN children : ~strstr(children[q].name, ev.mac)}

\* C32: while a device-removed event is handled, an entry whose job name
\* does not contain the event's address stays in the table as it is and its
\* process is sent neither SIGTERM nor SIGKILL.
C32_RemovalLeavesOthersAlone ==
    [][(pc \in {"rm_iter", "term_check", "term_sleep"} /\ ev.kind = "removed")
        => \A q \in OtherEntries :
              /\ q \in DOMAIN children'
              /\ children'[q] = children[q]
              /\ ev'.kind = "removed" => q \notin ev'.termed \cup ev'.killed]_vars

C32_Witness ==
    /\ pc = "rm_iter"
    /\ ev.kind = "removed"
    /\ ev.mac = <<"A", ":", "1">>
    /\ ev.termed # {}
    /\ \A p \in DOMAIN children : ~strstr(children[p].name, ev.mac)
    /\ \E q \in DOMAIN children :
          children[q].name = <<"bt_in_", "B", ":", "1">> /\ procs[q].st = "run"

\* the device-removed handler is running for an object path that has no
\* dev_ segment (the root path)
HandlesForeignRemoval ==
    /\ pc \in {"rm_iter", "term_check", "term_sleep"}
    /\ ev.kind = "removed"
    /\ ev.mac = extract_mac_from_object_path(PathRoot)

\* C33: handling an InterfacesRemoved signal for a path without a dev_
\* segment sends no signal to a supervised child and leaves the table
\* unchanged.
C33_ForeignRemovalIgnored ==
    [][HandlesForeignRemoval
        => (/\ children' = children
            /\ ev'.kind = "removed" => (ev'.termed = {} /\ ev'.killed = {}))]_vars

\* the processes a step starts
Started == {p \in PIDS : procs[p].st # "run" /\ procs'[p].st = "run"}

\* C34: a process has an entry under its pid from the step that starts it,
\* and the entry of a running process leaves the table only when the
\* daemon has terminated the process (device removal) or destroys the
\* table on exit.
C34_LiveChildrenTracked ==
    [][/\ \A p \in Started : p \in DOMAIN children'
       /\ \A p \in DOMAIN children \ DOMAIN children' :
             (procs[p].st = "run" /\ procs'[p].st = "run")
             => \/ pc = "term_check" /\ term.pid = p /\ p \in ev.termed
                \/ pc = "exit"]_vars

\* the bridge entries of the table
BridgeEntries == {p \in DOMAIN children : IsBridgeName(children[p].name)}

\* C35: the table never holds more bridge entries than max_bridges.
C35_BridgesWithinMaximum ==
    Running => Cardinality(BridgeEntries) <= config.max_bridges

\* the reaper reaps process p, whose entry is that of the auto-connect helper
ReapsHelper(p) ==
    /\ pc = "reaper"
    /\ procs[p].st = "zombie"
    /\ procs'[p] # procs[p]
    /\ p \in DOMAIN children
    /\ children[p].name = AUTOCONNECT_NAME

\* C36: when the reaper reaps the auto-connect helper it starts no process
\* and leaves no entry for the helper.
C36_HelperNotRestarted ==
    [][\A p \in PIDS :
          ReapsHelper(p)
          => (/\ Restarted = {}
              /\ \A q \in DOMAIN children' :
                    q \in DOMAIN children /\ children'[q] = children[q] /\ q # p)]_vars

\* C37: once g_main_loop_run has returned with the terminate flag set, the
\* flag stays set and main() goes through at most one reload (after_run,
\* reload, clear_hup, check_term, in this order) to the shutdown loop; it
\* does not enter the event wait again.
C37_TermSurvivesReload ==
    [][(got_term = 1 /\ pc \in {"after_run", "reload", "clear_hup", "check_term"})
        => (/\ got_term' = 1
            /\ pc = "after_run" => pc' \in {"after_run", "shutdown"} \cup
                                        (IF got_hup = 1 THEN {"reload"} ELSE {})
            /\ pc = "reload" => pc' \in {"reload", "clear_hup"}
            /\ pc = "clear_hup" => pc' \in {"clear_hup", "check_term"}
            /\ pc = "check_term" => pc' \in {"check_term", "shutdown"})]_vars

\* both flags were set when the loop returned, the reload has run and the
\* terminate flag is still set
C37_Witness ==
    /\ pc = "clear_hup"
    /\ got_hup = 1
    /\ got_term = 1
    /\ lastFile = FileTuned
    /\ config = OverlayOf(FileTuned)

\* the daemon is in the Terminating state of the design: main() has left
\* its loop with the terminate flag set and has not returned yet
Terminating ==
    \/ pc \in {"shutdown", "sd_iter", "exit"}
    \/ pc \in {"term_check", "term_sleep"} /\ ev.kind = "shutdown"

\* C38: a step taken while Terminating leaves the daemon Terminating or
\* ends the process; it handles no bus event, starts no process, does not
\* touch the config, and adds or changes no table entry.
C38_TerminatingIsFinal ==
    [][Terminating
        => (/\ Terminating' \/ pc' \in {"stopped", "crashed"}
            /\ events' = events
            /\ Started = {}
            /\ config' = config
            /\ \A p \in DOMAIN children' :
                  p \in DOMAIN children /\ children'[p] = children[p])]_vars

C38_Witness ==
    /\ pc = "exit"
    /\ ev.kind = "shutdown"
    /\ ev.termed # {}
    /\ DOMAIN children # {}

\* the table holds an entry under pid p and that process has exited
DeadEntry(p) == p \in DOMAIN children /\ procs[p].st = "zombie"

\* C39: an entry whose process has exited does not stay in the table: it is
\* removed (or its pid is that of a running replacement), unless the daemon
\* leaves Running first.
C39_DeadEntriesRemoved ==
    \A p \in PIDS :
       (Running /\ DeadEntry(p))
          ~> (p \notin DOMAIN children \/ procs[p].st = "run" \/ ~Running)

\* the reaper has reaped every exited child and the table holds no entry
C39_Witness ==
    /\ pc = "reaper"
    /\ events >= 1
    /\ \A p \in PIDS : procs[p].st = "free"
    /\ children = EmptyTable

====
